---- MODULE Spec2Model ----
(***************************************************************************)
(* Model of src/src/dual_camera_recorder.py: two CameraCapture objects     *)
(* (each with an acquisition thread and a bounded frame queue) and the     *)
(* DualCameraRecorder that pairs their frames in _recording_loop and       *)
(* writes the pairs to two video writers.                                  *)
(*                                                                         *)
(* A frame is represented by its timestamp (the value time.time() gave     *)
(* right after the device read), in clock ticks of 1/TickHz seconds.       *)
(* An optional frame (the Optional[Tuple] of get_frame) is a sequence:     *)
(* <<>> is None and <<ts>> is (frame, ts).                                 *)
(***************************************************************************)
EXTENDS Integers, Sequences, FiniteSets, TLC

\* ---- bounds of the model (not program constants) ----
MaxTime == 2          \* the clock runs over 0..MaxTime
MaxFrames == 3        \* successful device reads per camera
MaxThreads == 2       \* acquisition threads per camera alive at once
MaxRecThreads == 2    \* _recording_loop threads alive at once
MaxWrongCalls == 1    \* calls the caller makes outside the session protocol
AnyCallFrames == 1    \* successful device reads per camera under SpecAnyCall
TickHz == 240         \* clock ticks per second
StopsFrames == 2      \* successful device reads per camera under SpecStops
Lag == 1              \* under SpecLag: ticks by which camera 2's frames follow camera 1's
SwingMaxTime == 3     \* under SpecSwing the clock runs over 0..SwingMaxTime
MaxConfirm == 3       \* largest confirmation_frames a detector is built with
MaxCooldown == 2      \* largest cooldown_seconds a detector is built with, in ticks
MaxWindow == 4        \* largest window_size a detector is built with
JoinFrames == 2       \* successful device reads per camera under SpecJoin
ReadsFrames == 1      \* successful device reads per camera under SpecReads
ReadsFps == 60        \* the rate start_cameras is called with under SpecReads
MaxRequestThreads == 2 \* requests the web GUI serves at once
MaxRequests == 4      \* requests to start or stop a recording the web GUI receives
MaxRecorders == 2     \* DualCameraRecorder objects of the web GUI alive at once

\* ---- program constants ----
BufferSize == 2       \* CameraCapture.__init__(buffer_size=2)
FailureLimit == 100   \* _capture_loop: `if consecutive_failures > 100:`
MotionThreshold == 15 \* SwingDetector.__init__(motion_threshold=15.0), in degrees

Cams == {1, 2}
Tids == 1..MaxThreads
RTids == 1..MaxRecThreads
FpsChoices == {60, 120, 240}
\* sync_threshold is kept as the exact fraction num/den of a second
DefaultThreshold == [num |-> 17, den |-> 1000]

VARIABLES
  now,              \* time.time(), in ticks
  cap,              \* cap[c]: state of the object CameraCapture.cap refers to
  running,          \* running[c]: CameraCapture.running
  thread,           \* thread[c]: slot of CameraCapture.thread (0: None)
  capThreads,       \* capThreads[c][t]: an acquisition thread: [pc, ts]
  frame_queue,      \* frame_queue[c]: CameraCapture.frame_queue, oldest first
  frame_count,      \* frame_count[c]: CameraCapture.frame_count
  pushed,           \* history: the frames the acquisition loop handed to
                    \* frame_queue[c].put since a consumer last popped the queue
  recording,        \* DualCameraRecorder.recording
  sync_threshold,   \* DualCameraRecorder.sync_threshold
  requested_fps,    \* DualCameraRecorder.requested_fps (0: attribute not set)
  video_writer,     \* video_writer[i]: state of the object video_writer<i> refers to
  sink,             \* sink[i]: the frames the file behind video_writer<i> holds
  frames_written,   \* DualCameraRecorder.frames_written
  frames_dropped,   \* DualCameraRecorder.frames_dropped
  recording_thread, \* slot of DualCameraRecorder.recording_thread (0: not set)
  recThreads,       \* recThreads[r]: a _recording_loop thread: [pc, f1, f2, last1, last2]
                    \* and site, the place in the loop of its last write
  stalled,          \* history: the current run of consecutive loop iterations that
                    \* pulled a camera-1 frame and wrote nothing because camera 2
                    \* gave no frame, or only frames older than the window
  caller,           \* the thread calling the public methods: [pc, op, raising]
  result,           \* how the caller's last call ended
  wrongCalls,       \* history: calls made in a state the protocol does not allow
  detector,         \* a SwingDetector: its parameters and fields, and event, what
                    \* its last process_frame returned
  consecutive,      \* history: the current run of consecutive readings above the
                    \* threshold the detector received while waiting for a swing
  manager,          \* the CameraManager of the web GUI and the requests it serves
  consecutive_failures, \* consecutive_failures[c][t]: the local of that name of
                    \* the acquisition thread t of camera c
  swing_events      \* history: the last events the detector returned: last (of
                    \* all), cur and prev (the last two since the last reset)

vars == <<now, cap, running, thread, capThreads, frame_queue, frame_count,
          pushed, recording, sync_threshold, requested_fps, video_writer,
          sink, frames_written, frames_dropped, recording_thread, recThreads,
          stalled, caller, result, wrongCalls, detector, consecutive, manager,
          consecutive_failures, swing_events>>

camVars == <<cap, running, thread, capThreads, frame_queue, frame_count, pushed>>
recVars == <<recording, sync_threshold, requested_fps, video_writer, sink,
             frames_written, frames_dropped, recording_thread, recThreads, stalled>>
callVars == <<caller, result, wrongCalls>>
otherVars == <<detector, consecutive, manager, consecutive_failures, swing_events>>
recVarsButThreads == <<recording, sync_threshold, requested_fps, video_writer, sink,
                       frames_written, frames_dropped, recording_thread, stalled>>

\* ---- helpers ----
Abs(x) == IF x < 0 THEN -x ELSE x

\* an acquisition thread that does not exist (never started, or finished)
NoThread == [pc |-> "none", ts |-> 0]

\* a _recording_loop thread that does not exist; a thread that ended keeps no locals
NoRecThread == [pc |-> "none", f1 |-> <<>>, f2 |-> <<>>, last1 |-> <<>>, last2 |-> <<>>,
                site |-> "none"]

Idle == [pc |-> "idle", op |-> "none", raising |-> FALSE]

\* ---- queue.Queue ----
\* Queue.full(): 0 < maxsize <= qsize
QueueFull(q) == Len(q) >= BufferSize

\* Queue.get / get_nowait on the queue q: the item taken (<<>> when the queue is
\* empty: queue.Empty) and the queue left behind
QueueGet(q) ==
  IF q = <<>> THEN [item |-> <<>>, rest |-> q]
  ELSE [item |-> <<Head(q)>>, rest |-> Tail(q)]

\* time_diff < self.sync_threshold, for time_diff = abs(ts1 - ts2) ticks
InWindow(ts1, ts2) ==
  Abs(ts1 - ts2) * sync_threshold.den < sync_threshold.num * TickHz

\* no SwingDetector and no CameraManager has been constructed
NoDetector == [state |-> "none"]
NoManager == [state |-> "none"]
NoEvents == [last |-> "none", cur |-> "none", prev |-> "none"]
OtherInit ==
  /\ detector = NoDetector
  /\ consecutive = 0
  /\ manager = NoManager
  /\ consecutive_failures = [c \in Cams |-> [t \in Tids |-> 0]]
  /\ swing_events = NoEvents

Init ==
  /\ now = 0
  /\ cap = [c \in Cams |-> "none"]
  /\ running = [c \in Cams |-> FALSE]
  /\ thread = [c \in Cams |-> 0]
  /\ capThreads = [c \in Cams |-> [t \in Tids |-> NoThread]]
  /\ frame_queue = [c \in Cams |-> <<>>]
  /\ frame_count = [c \in Cams |-> 0]
  /\ pushed = [c \in Cams |-> <<>>]
  /\ recording = FALSE
  /\ sync_threshold = DefaultThreshold
  /\ requested_fps = 0
  /\ video_writer = [i \in Cams |-> "none"]
  /\ sink = [i \in Cams |-> <<>>]
  /\ frames_written = 0
  /\ frames_dropped = 0
  /\ recording_thread = 0
  /\ recThreads = [r \in RTids |-> NoRecThread]
  /\ stalled = 0
  /\ caller = Idle
  /\ result = "none"
  /\ wrongCalls = 0
  /\ OtherInit

\* ---- the clock ----
Tick ==
  /\ now < MaxTime
  /\ now' = now + 1
  /\ UNCHANGED <<camVars, recVars, callVars, otherVars>>

\* ---- CameraCapture._capture_loop, one thread t of camera c ----
SetCapThread(c, t, rec) == [capThreads EXCEPT ![c][t] = rec]

\* `while self.running:` false: the loop, and with it the thread, ends
CaptureExit(c, t) ==
  /\ capThreads[c][t].pc = "loop"
  /\ ~running[c]
  /\ capThreads' = SetCapThread(c, t, [pc |-> "done", ts |-> 0])
  /\ UNCHANGED <<now, otherVars, cap, running, thread, frame_queue, frame_count, pushed,
                 recVars, callVars>>

\* `ret, frame = self.cap.read()` succeeds; `timestamp = time.time()`
CaptureRead(c, t) ==
  /\ capThreads[c][t].pc = "loop"
  /\ running[c]
  /\ cap[c] = "open"
  /\ frame_count[c] < MaxFrames
  /\ capThreads' = SetCapThread(c, t, [pc |-> "full", ts |-> now])
  /\ UNCHANGED <<now, otherVars, cap, running, thread, frame_queue, frame_count, pushed,
                 recVars, callVars>>

\* A loop that never evicts: the full-check is skipped
CaptureFullNeverEvicts(c, t) ==
  /\ capThreads[c][t].pc = "full"
  /\ capThreads' = SetCapThread(c, t, [capThreads[c][t] EXCEPT !.pc = "put"])
  /\ UNCHANGED <<now, otherVars, cap, running, thread, frame_queue, frame_count, pushed,
                 recVars, callVars>>

\* `if self.frame_queue.full():`
CaptureFull(c, t) ==
  /\ capThreads[c][t].pc = "full"
  /\ capThreads' = SetCapThread(c, t,
       [capThreads[c][t] EXCEPT !.pc = IF QueueFull(frame_queue[c]) THEN "evict" ELSE "put"])
  /\ UNCHANGED <<now, otherVars, cap, running, thread, frame_queue, frame_count, pushed,
                 recVars, callVars>>

\* A loop that does not evict: the full queue is left as it is
CaptureEvictNone(c, t) ==
  /\ capThreads[c][t].pc = "evict"
  /\ capThreads' = SetCapThread(c, t, [capThreads[c][t] EXCEPT !.pc = "put"])
  /\ UNCHANGED <<now, otherVars, cap, running, thread, frame_queue, frame_count, pushed,
                 recVars, callVars>>

\* `self.frame_queue.get_nowait()`, queue.Empty ignored
CaptureEvict(c, t) ==
  /\ capThreads[c][t].pc = "evict"
  /\ frame_queue' = [frame_queue EXCEPT ![c] = QueueGet(frame_queue[c]).rest]
  /\ capThreads' = SetCapThread(c, t, [capThreads[c][t] EXCEPT !.pc = "put"])
  /\ UNCHANGED <<now, otherVars, cap, running, thread, frame_count, pushed, recVars, callVars>>

\* `self.frame_queue.put((frame.copy(), timestamp), block=False)`: on queue.Full
\* the frame is skipped, otherwise it is queued and counted
CapturePut(c, t) ==
  /\ capThreads[c][t].pc = "put"
  /\ IF QueueFull(frame_queue[c])
     THEN UNCHANGED <<frame_queue, frame_count>>
     ELSE /\ frame_queue' = [frame_queue EXCEPT ![c] = Append(@, capThreads[c][t].ts)]
          /\ frame_count' = [frame_count EXCEPT ![c] = @ + 1]
  /\ pushed' = [pushed EXCEPT ![c] = Append(@, capThreads[c][t].ts)]
  /\ capThreads' = SetCapThread(c, t, [pc |-> "loop", ts |-> 0])
  /\ UNCHANGED <<now, otherVars, cap, running, thread, recVars, callVars>>

\* A naive enqueue: a blocking put with no eviction (waits while the queue is full)
CaptureEnqueueBlocking(c, t) ==
  /\ capThreads[c][t].pc \in {"full", "evict", "put"}
  /\ ~QueueFull(frame_queue[c])
  /\ frame_queue' = [frame_queue EXCEPT ![c] = Append(@, capThreads[c][t].ts)]
  /\ frame_count' = [frame_count EXCEPT ![c] = @ + 1]
  /\ pushed' = [pushed EXCEPT ![c] = Append(@, capThreads[c][t].ts)]
  /\ capThreads' = SetCapThread(c, t, [pc |-> "loop", ts |-> 0])
  /\ UNCHANGED <<now, otherVars, cap, running, thread, recVars, callVars>>

\* lines 70-83: the enqueue of a frame that was read
CaptureEnqueue(c, t) ==
  \/ CaptureFull(c, t)
  \/ CaptureEvict(c, t)
  \/ CapturePut(c, t)

CaptureStep(c, t) ==
  \/ CaptureExit(c, t)
  \/ CaptureRead(c, t)
  \/ CaptureEnqueue(c, t)

\* ---- CameraCapture.get_frame ----
\* A get_frame that hands out the newest queued frame instead of the oldest
GetFrameNewest(c) ==
  LET q == frame_queue[c] IN
    IF q = <<>> THEN [item |-> <<>>, rest |-> q]
    ELSE [item |-> <<q[Len(q)]>>, rest |-> SubSeq(q, 1, Len(q) - 1)]

\* A get_frame that returns the oldest queued frame and leaves it in the queue
GetFramePeek(c) ==
  LET q == frame_queue[c] IN
    IF q = <<>> THEN [item |-> <<>>, rest |-> q]
    ELSE [item |-> <<Head(q)>>, rest |-> q]

\* get_frame(timeout) on camera c: the frame returned (<<>>: None, the queue
\* stayed empty for the whole timeout) and the queue left behind
GetFrame(c) == QueueGet(frame_queue[c])

\* the history of pushes is cut by a consumer's pop
PushedAfterGet(c, item) ==
  [pushed EXCEPT ![c] = IF item = <<>> THEN @ ELSE <<>>]

\* ---- DualCameraRecorder._recording_loop, thread r ----
SetRecThread(r, rec) == [recThreads EXCEPT ![r] = rec]

\* lines 248-251: the locals and the counters are reset by the new thread
RecInit(r) ==
  /\ recThreads[r].pc = "init"
  /\ frames_written' = 0
  /\ frames_dropped' = 0
  /\ stalled' = 0
  /\ recThreads' = SetRecThread(r, [NoRecThread EXCEPT !.pc = "get1"])
  /\ UNCHANGED <<now, otherVars, camVars, recording, sync_threshold, requested_fps,
                 video_writer, sink, recording_thread, callVars>>

\* `while self.recording:` false: the loop ends
RecExit(r) ==
  /\ recThreads[r].pc = "get1"
  /\ ~recording
  /\ recThreads' = SetRecThread(r, [NoRecThread EXCEPT !.pc = "done"])
  /\ UNCHANGED <<now, otherVars, camVars, recVarsButThreads, callVars>>

\* line 256: frame1_data = self.camera1.get_frame(timeout=0.05)
RecGet1(r) ==
  /\ recThreads[r].pc = "get1"
  /\ recording
  /\ LET g == GetFrame(1) IN
       /\ frame_queue' = [frame_queue EXCEPT ![1] = g.rest]
       /\ pushed' = PushedAfterGet(1, g.item)
       /\ recThreads' = SetRecThread(r, [recThreads[r] EXCEPT
                           !.pc = "get2", !.f1 = g.item, !.f2 = <<>>])
  /\ UNCHANGED <<now, otherVars, cap, running, thread, capThreads, frame_count,
                 recVarsButThreads, callVars>>

\* A loop that writes every in-window pair, whatever it wrote last
BranchNoDedup(f1, f2, last1, last2) ==
  IF f1 = <<>> \/ f2 = <<>> THEN "get1"
  ELSE IF InWindow(f1[1], f2[1]) THEN "write"
  ELSE IF f1[1] < f2[1] THEN "retry1" ELSE "retry2"

\* lines 260-269, 285, 303, 321-324: where the loop goes with the two pulled
\* frames: to a write, to a retry pull, or to the next iteration
Branch(f1, f2, last1, last2) ==
  IF f1 = <<>> \/ f2 = <<>> THEN "get1"
  ELSE IF InWindow(f1[1], f2[1])
       THEN IF last1 # f1 /\ last2 # f2 THEN "write" ELSE "get1"
       ELSE IF f1[1] < f2[1] THEN "retry1" ELSE "retry2"

\* A retry that writes whatever frame the retry pull returned
RetryHitAlways(ts1, ts2) == TRUE

\* lines 290-291 and 308-309: the pair with the retried frame is written only
\* inside the window
RetryHit(ts1, ts2) == InWindow(ts1, ts2)

\* A second pull that waits for a frame without a timeout
RecGet2Blocking(r) ==
  /\ recThreads[r].pc = "get2"
  /\ frame_queue[2] # <<>>
  /\ LET g == GetFrame(2)
         me == recThreads[r]
         next == Branch(me.f1, g.item, me.last1, me.last2)
     IN
       /\ frame_queue' = [frame_queue EXCEPT ![2] = g.rest]
       /\ pushed' = PushedAfterGet(2, g.item)
       /\ recThreads' = SetRecThread(r, [me EXCEPT !.pc = next, !.f2 = g.item])
       /\ stalled' = IF next = "get1" THEN 0 ELSE stalled
  /\ UNCHANGED <<now, otherVars, cap, running, thread, capThreads, frame_count, recording,
                 sync_threshold, requested_fps, video_writer, sink, frames_written,
                 frames_dropped, recording_thread, callVars>>

\* line 257: frame2_data = self.camera2.get_frame(timeout=0.05), and the branch
RecGet2(r) ==
  /\ recThreads[r].pc = "get2"
  /\ LET g == GetFrame(2)
         me == recThreads[r]
         next == Branch(me.f1, g.item, me.last1, me.last2)
     IN
       /\ frame_queue' = [frame_queue EXCEPT ![2] = g.rest]
       /\ pushed' = PushedAfterGet(2, g.item)
       /\ recThreads' = SetRecThread(r, [me EXCEPT !.pc = next, !.f2 = g.item])
       /\ stalled' = IF me.f1 = <<>> THEN stalled
                     ELSE IF g.item = <<>> THEN stalled + 1
                     ELSE IF next = "get1" THEN 0 ELSE stalled
  /\ UNCHANGED <<now, otherVars, cap, running, thread, capThreads, frame_count, recording,
                 sync_threshold, requested_fps, video_writer, sink, frames_written,
                 frames_dropped, recording_thread, callVars>>

\* lines 286-302 (c = 1) and 304-320 (c = 2): one more frame from the camera that
\* is behind; frames_dropped counts only a pull that returned nothing
RecRetry(r, c) ==
  /\ recThreads[r].pc = (IF c = 1 THEN "retry1" ELSE "retry2")
  /\ LET g == GetFrame(c)
         me == recThreads[r]
         ts1 == IF c = 1 THEN g.item[1] ELSE me.f1[1]
         ts2 == IF c = 2 THEN g.item[1] ELSE me.f2[1]
         hit == g.item # <<>> /\ RetryHit(ts1, ts2)
     IN
       /\ frame_queue' = [frame_queue EXCEPT ![c] = g.rest]
       /\ pushed' = PushedAfterGet(c, g.item)
       /\ frames_dropped' = IF g.item = <<>> THEN frames_dropped + 1 ELSE frames_dropped
       /\ recThreads' = SetRecThread(r,
            IF g.item = <<>> THEN [me EXCEPT !.pc = "get1"]
            ELSE [me EXCEPT !.pc = IF ~hit THEN "get1"
                                   ELSE IF c = 1 THEN "write_r1" ELSE "write_r2",
                            !.f1 = IF c = 1 THEN g.item ELSE @,
                            !.f2 = IF c = 2 THEN g.item ELSE @])
       /\ stalled' = IF hit THEN stalled
                     ELSE IF c = 2 /\ (g.item = <<>> \/ ts2 < ts1) THEN stalled + 1
                     ELSE 0
  /\ UNCHANGED <<now, otherVars, cap, running, thread, capThreads, frame_count, recording,
                 sync_threshold, requested_fps, video_writer, sink, frames_written,
                 recording_thread, callVars>>

\* VideoWriter.write(frame): a writer that is not open ignores the frame
SinkAfterWrite(i, frame) ==
  IF video_writer[i] = "open" THEN Append(sink[i], frame) ELSE sink[i]

\* the three places of the loop that write: lines 270-284, 292-300, 310-318
WritePcs == {"write", "write_r1", "write_r2"}

\* lines 270-276, 292-297, 310-315: both writes succeed
RecWriteOk(r) ==
  /\ recThreads[r].pc \in WritePcs
  /\ \A i \in Cams : video_writer[i] # "none"
  /\ LET me == recThreads[r] IN
       /\ sink' = [i \in Cams |-> SinkAfterWrite(i, IF i = 1 THEN me.f1[1] ELSE me.f2[1])]
       /\ recThreads' = SetRecThread(r, [me EXCEPT !.pc = "get1", !.site = me.pc,
                                                  !.last1 = me.f1, !.last2 = me.f2])
  /\ frames_written' = frames_written + 1
  /\ stalled' = 0
  /\ UNCHANGED <<now, otherVars, camVars, recording, sync_threshold, requested_fps, video_writer,
                 frames_dropped, recording_thread, callVars>>

\* lines 282-284, 298-300, 316-318: a write raises and the loop breaks; when it
\* is the second write (i = 2) the first sink already holds its frame
RecWriteFail(r, i) ==
  /\ recThreads[r].pc \in WritePcs
  /\ sink' = IF i = 2 /\ video_writer[1] # "none"
             THEN [sink EXCEPT ![1] = SinkAfterWrite(1, recThreads[r].f1[1])]
             ELSE sink
  /\ recThreads' = SetRecThread(r, [NoRecThread EXCEPT !.pc = "failed"])
  /\ UNCHANGED <<now, otherVars, camVars, recording, sync_threshold, requested_fps, video_writer,
                 frames_written, frames_dropped, recording_thread, stalled, callVars>>

RecStep(r) ==
  \/ RecInit(r)
  \/ RecExit(r)
  \/ RecGet1(r)
  \/ RecGet2(r)
  \/ \E c \in Cams : RecRetry(r, c)
  \/ RecWriteOk(r)
  \/ \E i \in Cams : RecWriteFail(r, i)

\* ---- the public methods, called from one thread ----
\* a thread that was started and has not ended ("done": its loop saw the flag
\* cleared; "failed": its loop broke on a write error)
Alive(pc) == pc \notin {"none", "done", "failed"}

\* the slot a new thread takes: the first one holding no live thread
FreeSlot(c) == CHOOSE t \in Tids : /\ ~Alive(capThreads[c][t].pc)
                                   /\ \A u \in Tids : u < t => Alive(capThreads[c][u].pc)
FreeRecSlot == CHOOSE r \in RTids : /\ ~Alive(recThreads[r].pc)
                                    /\ \A u \in RTids : u < r => Alive(recThreads[u].pc)

\* the session state of spec.md section 3, read off the recorder's fields
SessionState ==
  IF recording THEN "Recording"
  ELSE IF running[1] /\ running[2] THEN "CamerasStarted"
  ELSE "Idle"

\* the calls spec.md section 3 allows in the present state
Allowed(op) ==
  CASE op = "start_cameras" -> SessionState = "Idle"
    [] op = "start_recording" -> SessionState = "CamerasStarted"
    [] op = "stop_recording" -> SessionState = "Recording"
    [] op = "stop_cameras" -> SessionState = "CamerasStarted"

\* the caller begins the call op; calls outside the protocol are counted
BeginCall(op) ==
  /\ caller.pc = "idle"
  /\ IF Allowed(op) THEN UNCHANGED wrongCalls
     ELSE /\ wrongCalls < MaxWrongCalls
          /\ wrongCalls' = wrongCalls + 1

\* CameraCapture.start (lines 30-60) on camera c: the device opens (ok) and the
\* acquisition thread is started, or it does not and ValueError is raised
CameraStart(c, ok) ==
  IF ok
  THEN /\ \E t \in Tids : ~Alive(capThreads[c][t].pc)
       /\ cap' = [cap EXCEPT ![c] = "open"]
       /\ running' = [running EXCEPT ![c] = TRUE]
       /\ thread' = [thread EXCEPT ![c] = FreeSlot(c)]
       /\ capThreads' = SetCapThread(c, FreeSlot(c), [pc |-> "loop", ts |-> 0])
  ELSE /\ cap' = [cap EXCEPT ![c] = "closed"]
       /\ UNCHANGED <<running, thread, capThreads>>

\* A start_cameras that leaves sync_threshold as it finds it
CallStartCamerasKeepThreshold(fps) ==
  /\ BeginCall("start_cameras")
  /\ result' = "none"
  /\ requested_fps' = fps
  /\ \E ok \in BOOLEAN :
       /\ CameraStart(1, ok)
       /\ caller' = [pc |-> IF ok THEN "start2" ELSE "stop1",
                     op |-> "start_cameras", raising |-> ~ok]
  /\ UNCHANGED <<now, otherVars, frame_queue, frame_count, pushed, recording, video_writer,
                 sink, frames_written, frames_dropped, recording_thread, recThreads,
                 stalled, sync_threshold>>

\* start_cameras, lines 138-145: the threshold is set and camera 1 is started; a
\* failed start goes to `except`: stop_cameras(), then the exception is re-raised
CallStartCameras(fps) ==
  /\ BeginCall("start_cameras")
  /\ result' = "none"
  /\ requested_fps' = fps
  /\ sync_threshold' = [num |-> 1, den |-> fps]
  /\ \E ok \in BOOLEAN :
       /\ CameraStart(1, ok)
       /\ caller' = [pc |-> IF ok THEN "start2" ELSE "stop1",
                     op |-> "start_cameras", raising |-> ~ok]
  /\ UNCHANGED <<now, otherVars, frame_queue, frame_count, pushed, recording, video_writer,
                 sink, frames_written, frames_dropped, recording_thread, recThreads,
                 stalled>>

\* A start_cameras that returns the error of camera 2 without stopping camera 1
StartCamera2NoRollback ==
  /\ caller.pc = "start2"
  /\ \E ok \in BOOLEAN :
       /\ CameraStart(2, ok)
       /\ caller' = Idle
       /\ result' = IF ok THEN "ok" ELSE "raised ValueError"
  /\ UNCHANGED <<now, otherVars, frame_queue, frame_count, pushed, recVars, wrongCalls>>

\* start_cameras, lines 146-152: camera 2 is started and the call returns
StartCamera2 ==
  /\ caller.pc = "start2"
  /\ \E ok \in BOOLEAN :
       /\ CameraStart(2, ok)
       /\ caller' = IF ok THEN Idle ELSE [caller EXCEPT !.pc = "stop1", !.raising = TRUE]
       /\ result' = IF ok THEN "ok" ELSE result
  /\ UNCHANGED <<now, otherVars, frame_queue, frame_count, pushed, recVars, wrongCalls>>

\* stop_cameras, lines 158-162
CallStopCameras ==
  /\ BeginCall("stop_cameras")
  /\ result' = "none"
  /\ caller' = [pc |-> "stop1", op |-> "stop_cameras", raising |-> FALSE]
  /\ UNCHANGED <<now, otherVars, camVars, recVars>>

StopPc(c) == IF c = 1 THEN "stop1" ELSE "stop2"
JoinPc(c) == IF c = 1 THEN "join1" ELSE "join2"

\* CameraCapture.stop, line 103: self.running = False
CameraStop(c) ==
  /\ caller.pc = StopPc(c)
  /\ running' = [running EXCEPT ![c] = FALSE]
  /\ caller' = [caller EXCEPT !.pc = JoinPc(c)]
  /\ UNCHANGED <<now, otherVars, cap, thread, capThreads, frame_queue, frame_count, pushed,
                 recVars, result, wrongCalls>>

\* CameraCapture.stop, lines 104-107: the thread, if there is one, is joined (it
\* ends within the join's timeout) and the device, if there is one, is released;
\* after camera 2 the call returns, or re-raises what start_cameras caught
CameraJoin(c) ==
  /\ caller.pc = JoinPc(c)
  /\ IF thread[c] = 0 THEN TRUE ELSE ~Alive(capThreads[c][thread[c]].pc)
  /\ cap' = [cap EXCEPT ![c] = IF @ = "none" THEN "none" ELSE "closed"]
  /\ caller' = IF c = 1 THEN [caller EXCEPT !.pc = StopPc(2)] ELSE Idle
  /\ result' = IF c = 1 THEN result ELSE IF caller.raising THEN "raised ValueError" ELSE "ok"
  /\ UNCHANGED <<now, otherVars, running, thread, capThreads, frame_queue, frame_count, pushed,
                 recVars, wrongCalls>>

\* start_recording, lines 164-204: refused while recording; otherwise the codec
\* is chosen and the paths are built
CallStartRecording ==
  /\ BeginCall("start_recording")
  /\ IF recording
     THEN /\ result' = "Already recording!"
          /\ UNCHANGED caller
     ELSE /\ result' = "none"
          /\ caller' = [pc |-> "initial1", op |-> "start_recording", raising |-> FALSE]
  /\ UNCHANGED <<now, otherVars, camVars, recVars>>

InitialPc(c) == IF c = 1 THEN "initial1" ELSE "initial2"

\* start_recording, lines 207-208: `frame, _ = self.camera<c>.get_frame(timeout=2.0)`;
\* unpacking the None of an empty queue raises TypeError out of start_recording
InitialFrame(c) ==
  /\ caller.pc = InitialPc(c)
  /\ LET g == GetFrame(c) IN
       /\ frame_queue' = [frame_queue EXCEPT ![c] = g.rest]
       /\ pushed' = PushedAfterGet(c, g.item)
       /\ caller' = IF g.item = <<>> THEN Idle
                    ELSE [caller EXCEPT !.pc = IF c = 1 THEN InitialPc(2) ELSE "writers"]
       /\ result' = IF g.item = <<>> THEN "raised TypeError" ELSE result
  /\ UNCHANGED <<now, otherVars, cap, running, thread, capThreads, frame_count, recVars, wrongCalls>>

\* start_recording, lines 231-240: the two writers are created (each opens or
\* not); with both open the flag is set and the _recording_loop thread started
OpenWriters ==
  /\ caller.pc = "writers"
  /\ \E ok \in [Cams -> BOOLEAN] :
       /\ video_writer' = [i \in Cams |-> IF ok[i] THEN "open" ELSE "unopened"]
       /\ sink' = [i \in Cams |-> <<>>]
       /\ IF \A i \in Cams : ok[i]
          THEN /\ \E r \in RTids : ~Alive(recThreads[r].pc)
               /\ recording' = TRUE
               /\ recording_thread' = FreeRecSlot
               /\ recThreads' = SetRecThread(FreeRecSlot, [NoRecThread EXCEPT !.pc = "init"])
               /\ result' = "ok"
          ELSE /\ result' = "Error: Could not initialize video writers"
               /\ UNCHANGED <<recording, recording_thread, recThreads>>
  /\ caller' = Idle
  /\ UNCHANGED <<now, otherVars, camVars, sync_threshold, requested_fps, frames_written,
                 frames_dropped, stalled, wrongCalls>>

\* A stop_recording that does not look at the flag
CallStopRecordingAlways ==
  /\ BeginCall("stop_recording")
  /\ result' = "none"
  /\ recording' = FALSE
  /\ caller' = [pc |-> "joinrec", op |-> "stop_recording", raising |-> FALSE]
  /\ UNCHANGED <<now, otherVars, camVars, sync_threshold, requested_fps, video_writer, sink,
                 frames_written, frames_dropped, recording_thread, recThreads, stalled>>

\* stop_recording, lines 337-343: refused when not recording; otherwise the flag
\* is cleared
CallStopRecording ==
  /\ BeginCall("stop_recording")
  /\ IF ~recording
     THEN /\ result' = "Not recording!"
          /\ UNCHANGED <<caller, recording>>
     ELSE /\ result' = "none"
          /\ recording' = FALSE
          /\ caller' = [pc |-> "joinrec", op |-> "stop_recording", raising |-> FALSE]
  /\ UNCHANGED <<now, otherVars, camVars, sync_threshold, requested_fps, video_writer, sink,
                 frames_written, frames_dropped, recording_thread, recThreads, stalled>>

\* stop_recording, lines 344-352: the loop's thread is joined (it ends within the
\* join's timeout) and the writers are released
JoinRecording ==
  /\ caller.pc = "joinrec"
  /\ IF recording_thread = 0 THEN TRUE ELSE ~Alive(recThreads[recording_thread].pc)
  /\ video_writer' = [i \in Cams |-> IF video_writer[i] = "none" THEN "none" ELSE "released"]
  /\ caller' = Idle
  /\ result' = "ok"
  /\ UNCHANGED <<now, otherVars, camVars, recording, sync_threshold, requested_fps, sink,
                 frames_written, frames_dropped, recording_thread, recThreads, stalled,
                 wrongCalls>>

\* the steps inside a call, whatever made the call
CallStep ==
  \/ StartCamera2
  \/ \E c \in Cams : CameraStop(c)
  \/ \E c \in Cams : CameraJoin(c)
  \/ \E c \in Cams : InitialFrame(c)
  \/ OpenWriters
  \/ JoinRecording

Threads ==
  \/ Tick
  \/ \E c \in Cams, t \in Tids : CaptureStep(c, t)
  \/ \E r \in RTids : RecStep(r)
  \/ CallStep

\* a caller that keeps to the session protocol of spec.md section 3
Next ==
  \/ Threads
  \/ \E fps \in FpsChoices : Allowed("start_cameras") /\ CallStartCameras(fps)
  \/ Allowed("start_recording") /\ CallStartRecording
  \/ Allowed("stop_recording") /\ CallStopRecording
  \/ Allowed("stop_cameras") /\ CallStopCameras

Spec == Init /\ [][Next]_vars

\* a caller that makes any call in any state (MaxWrongCalls of them outside the
\* protocol), with cameras that deliver AnyCallFrames frames each: with fewer
\* frames than BufferSize + 1 no queue is found full, so there is no eviction step
NextAnyCall ==
  \/ Tick
  \/ \E c \in Cams, t \in Tids : CaptureExit(c, t)
  \/ \E c \in Cams, t \in Tids : frame_count[c] < AnyCallFrames /\ CaptureRead(c, t)
  \/ \E c \in Cams, t \in Tids : CaptureFull(c, t) \/ CapturePut(c, t)
  \/ \E r \in RTids : RecStep(r)
  \/ CallStep
  \/ \E fps \in FpsChoices : CallStartCameras(fps)
  \/ CallStartRecording
  \/ CallStopRecording
  \/ CallStopCameras

SpecAnyCall == Init /\ [][NextAnyCall]_vars

\* a caller that keeps to the session protocol except for stops that have nothing
\* to stop: stop_recording while not recording, stop_cameras before any
\* start_cameras; cameras that deliver StopsFrames frames each
NextStops ==
  \/ Tick
  \/ \E c \in Cams, t \in Tids : CaptureExit(c, t)
  \/ \E c \in Cams, t \in Tids : frame_count[c] < StopsFrames /\ CaptureRead(c, t)
  \/ \E c \in Cams, t \in Tids : CaptureFull(c, t) \/ CapturePut(c, t)
  \/ \E r \in RTids : RecStep(r)
  \/ CallStep
  \/ \E fps \in FpsChoices : Allowed("start_cameras") /\ CallStartCameras(fps)
  \/ Allowed("start_recording") /\ CallStartRecording
  \/ CallStopRecording
  \/ (Allowed("stop_cameras") \/ requested_fps = 0) /\ CallStopCameras

SpecStops == Init /\ [][NextStops]_vars

\* ---- the codec negotiation of start_recording, lines 176-201 ----
\* codec_options, in the order they are tried
Codecs == <<"H264", "XVID", "mp4v", "MJPG">>

\* the codec taken when no candidate's probe writer opened, line 200
FallbackCodec == "mp4v"

\* what the probe of a candidate does: the probe writer opens, it does not
\* (isOpened() is False), or creating it raises
ProbeOutcomes == {"opens", "fails", "raises"}

\* start_recording has been called on a new recorder and is about to walk the
\* list; probe[i] is what the platform makes of candidate i, probed the number
\* of candidates tried so far, fourcc the local of that name ("none": None)
InitCodec ==
  /\ now = 0
  /\ cap = [c \in Cams |-> "none"]
  /\ running = [c \in Cams |-> FALSE]
  /\ thread = [c \in Cams |-> 0]
  /\ capThreads = [c \in Cams |-> [t \in Tids |-> NoThread]]
  /\ frame_queue = [c \in Cams |-> <<>>]
  /\ frame_count = [c \in Cams |-> 0]
  /\ pushed = [c \in Cams |-> <<>>]
  /\ recording = FALSE
  /\ sync_threshold = DefaultThreshold
  /\ requested_fps = 0
  /\ video_writer = [i \in Cams |-> "none"]
  /\ sink = [i \in Cams |-> <<>>]
  /\ frames_written = 0
  /\ frames_dropped = 0
  /\ recording_thread = 0
  /\ recThreads = [r \in RTids |-> NoRecThread]
  /\ stalled = 0
  /\ result = "none"
  /\ wrongCalls = 0
  /\ OtherInit
  /\ \E p \in [1..Len(Codecs) -> ProbeOutcomes] :
       caller = [pc |-> "probe", op |-> "start_recording", raising |-> FALSE,
                 probe |-> p, probed |-> 0, fourcc |-> "none"]

\* A loop that goes on to the next candidate after a probe writer opened
ProbeCodecNoBreak ==
  /\ caller.pc = "probe"
  /\ LET i == caller.probed + 1
         opens == caller.probe[i] = "opens"
     IN caller' = [caller EXCEPT
                     !.probed = i,
                     !.fourcc = IF opens THEN Codecs[i] ELSE @,
                     !.pc = IF i = Len(Codecs) THEN "fallback" ELSE "probe"]
  /\ UNCHANGED <<now, otherVars, camVars, recVars, result, wrongCalls>>

\* lines 179-197, one turn of the loop: the candidate is probed; when its probe
\* writer opens the candidate is taken and the loop is left (break), otherwise
\* (not opened, or an exception) the loop goes on with the next candidate
ProbeCodec ==
  /\ caller.pc = "probe"
  /\ LET i == caller.probed + 1
         opens == caller.probe[i] = "opens"
     IN caller' = [caller EXCEPT
                     !.probed = i,
                     !.fourcc = IF opens THEN Codecs[i] ELSE @,
                     !.pc = IF opens \/ i = Len(Codecs) THEN "fallback" ELSE "probe"]
  /\ UNCHANGED <<now, otherVars, camVars, recVars, result, wrongCalls>>

\* lines 199-201: `if fourcc is None:` the fallback codec is taken
ProbeFallback ==
  /\ caller.pc = "fallback"
  /\ caller' = [caller EXCEPT
                  !.fourcc = IF @ = "none" THEN FallbackCodec ELSE @,
                  !.pc = InitialPc(1)]
  /\ UNCHANGED <<now, otherVars, camVars, recVars, result, wrongCalls>>

NextCodec ==
  \/ ProbeCodec
  \/ ProbeFallback
  \/ InitialFrame(1)

SpecCodec == InitCodec /\ [][NextCodec]_vars

\* ---- two cameras at the requested rate, camera 2 a fixed Lag behind ----
\* the interval between two frames of a camera: cap.set(CAP_PROP_FPS, fps)
\* (0 before any rate was requested)
Period == IF requested_fps = 0 THEN 0 ELSE TickHz \div requested_fps

\* the time at which cap.read() returns the next frame of camera c: camera 1's
\* frame k at k * Period, camera 2's frame k Lag later
Due(c) == frame_count[c] * Period + (IF c = 2 THEN Lag ELSE 0)

\* camera c is running and has frames still to deliver
StreamLive(c) == running[c] /\ cap[c] = "open" /\ frame_count[c] < MaxFrames

\* time passes while the cameras deliver: it does not pass a frame that is due
TickLag ==
  /\ \E c \in Cams : frame_count[c] < MaxFrames
  /\ \A c \in Cams : frame_count[c] < MaxFrames => (StreamLive(c) /\ now < Due(c))
  /\ now' = now + 1
  /\ UNCHANGED <<camVars, recVars, callVars, otherVars>>

\* cap.read() returns a frame exactly when it is due
CaptureReadLag(c, t) == CaptureRead(c, t) /\ now = Due(c)

\* get_frame with a timeout longer than the frame interval (0.05 s, 2.0 s)
\* returns: with a frame, or with None once the camera delivers no more
CanPull(c) == frame_queue[c] # <<>> \/ ~StreamLive(c)

\* the retry pulls' timeout of 0.01 s is shorter than the frame interval
RetryMayTimeOut == 100 * Period > TickHz

NextLag ==
  \/ TickLag
  \/ \E c \in Cams, t \in Tids : CaptureExit(c, t)
  \/ \E c \in Cams, t \in Tids : CaptureReadLag(c, t)
  \/ \E c \in Cams, t \in Tids : CaptureEnqueue(c, t)
  \/ \E r \in RTids : RecInit(r) \/ RecExit(r)
  \/ \E r \in RTids : CanPull(1) /\ RecGet1(r)
  \/ \E r \in RTids : CanPull(2) /\ RecGet2(r)
  \/ \E r \in RTids, c \in Cams : (CanPull(c) \/ RetryMayTimeOut) /\ RecRetry(r, c)
  \/ \E r \in RTids : RecWriteOk(r)
  \/ \E r \in RTids, i \in Cams : RecWriteFail(r, i)
  \/ StartCamera2
  \/ \E c \in Cams : CameraStop(c) \/ CameraJoin(c)
  \/ \E c \in Cams : CanPull(c) /\ InitialFrame(c)
  \/ OpenWriters
  \/ JoinRecording
  \/ \E fps \in FpsChoices :
       Lag * fps < TickHz /\ Allowed("start_cameras") /\ CallStartCameras(fps)
  \/ Allowed("start_recording") /\ CallStartRecording
  \/ Allowed("stop_recording") /\ CallStopRecording
  \/ Allowed("stop_cameras") /\ CallStopCameras

SpecLag == Init /\ [][NextLag]_vars

\* ---- the acquisition loop with device reads that fail ----
\* `while self.running:` false, with the thread's local gone with the thread
CaptureLoopExit(c, t) ==
  /\ capThreads[c][t].pc = "loop"
  /\ ~running[c]
  /\ capThreads' = SetCapThread(c, t, [pc |-> "done", ts |-> 0])
  /\ consecutive_failures' = [consecutive_failures EXCEPT ![c][t] = 0]
  /\ UNCHANGED <<now, detector, consecutive, swing_events, manager, cap, running, thread, frame_queue,
                 frame_count, pushed, recVars, callVars>>

\* lines 65-69: cap.read() returns a frame; consecutive_failures = 0
CaptureReadOk(c, t) ==
  /\ capThreads[c][t].pc = "loop"
  /\ running[c]
  /\ cap[c] = "open"
  /\ frame_count[c] < ReadsFrames
  /\ capThreads' = SetCapThread(c, t, [pc |-> "full", ts |-> now])
  /\ consecutive_failures' = [consecutive_failures EXCEPT ![c][t] = 0]
  /\ UNCHANGED <<now, detector, consecutive, swing_events, manager, cap, running, thread, frame_queue,
                 frame_count, pushed, recVars, callVars>>

\* A loop that gives up after more than FailureLimit failed reads in a row
CaptureReadFailGivesUp(c, t) ==
  /\ capThreads[c][t].pc = "loop"
  /\ running[c]
  /\ \A d \in Cams \ {c}, u \in Tids : consecutive_failures[d][u] = 0
  /\ IF consecutive_failures[c][t] + 1 > FailureLimit
     THEN /\ capThreads' = SetCapThread(c, t, [pc |-> "done", ts |-> 0])
          /\ consecutive_failures' = [consecutive_failures EXCEPT ![c][t] = 0]
     ELSE /\ consecutive_failures' = [consecutive_failures EXCEPT ![c][t] = @ + 1]
          /\ UNCHANGED capThreads
  /\ UNCHANGED <<now, detector, consecutive, swing_events, manager, cap, running, thread, frame_queue,
                 frame_count, pushed, recVars, callVars>>

\* lines 84-89: cap.read() returns no frame (ret is False): the counter goes up,
\* and back to 0 once it is above FailureLimit; then time.sleep(0.01). Reads
\* fail on one camera at a time.
CaptureReadFail(c, t) ==
  /\ capThreads[c][t].pc = "loop"
  /\ running[c]
  /\ \A d \in Cams \ {c}, u \in Tids : consecutive_failures[d][u] = 0
  /\ consecutive_failures' = [consecutive_failures EXCEPT ![c][t] =
                                IF @ + 1 > FailureLimit THEN 0 ELSE @ + 1]
  /\ UNCHANGED <<now, detector, consecutive, swing_events, manager, camVars, recVars, callVars>>

\* the cameras are started and stopped, and deliver ReadsFrames frames each
\* between reads that fail
NextReads ==
  \/ \E c \in Cams, t \in Tids : CaptureLoopExit(c, t)
  \/ \E c \in Cams, t \in Tids : CaptureReadOk(c, t)
  \/ \E c \in Cams, t \in Tids : CaptureReadFail(c, t)
  \/ \E c \in Cams, t \in Tids : CaptureFull(c, t) \/ CapturePut(c, t)
  \/ StartCamera2
  \/ \E c \in Cams : CameraStop(c)
  \/ \E c \in Cams : CameraJoin(c)
  \/ Allowed("start_cameras") /\ CallStartCameras(ReadsFps)
  \/ Allowed("stop_cameras") /\ CallStopCameras

SpecReads == Init /\ [][NextReads]_vars

\* ---- the recording loop under a fair scheduler ----
\* The interpreter gives every live thread its turn: a _recording_loop thread
\* that can take a step eventually takes one. Nothing is assumed of the cameras
\* (they may deliver nothing more) or of the caller.
SpecFair == Init /\ [][NextStops]_vars /\ \A r \in RTids : WF_vars(RecStep(r))

\* ---- stop_recording with a join that times out ----
\* stop_recording, lines 344-352, when recording_thread.join(timeout=2.0) returns
\* with the thread still alive: the writers are released all the same. An
\* iteration's pulls and its sleep are bounded well below the 2 s; the step with
\* no bound on its duration is VideoWriter.write, so the join is taken to time
\* out only on a loop that is inside a write.
JoinRecordingTimeout ==
  /\ caller.pc = "joinrec"
  /\ recording_thread # 0
  /\ recThreads[recording_thread].pc \in WritePcs
  /\ video_writer' = [i \in Cams |-> IF video_writer[i] = "none" THEN "none" ELSE "released"]
  /\ caller' = Idle
  /\ result' = "ok"
  /\ UNCHANGED <<now, otherVars, camVars, recording, sync_threshold, requested_fps, sink,
                 frames_written, frames_dropped, recording_thread, recThreads, stalled,
                 wrongCalls>>

\* the protocol caller, cameras that deliver JoinFrames frames each, and a join
\* that may time out
NextJoin ==
  \/ Tick
  \/ \E c \in Cams, t \in Tids : CaptureExit(c, t)
  \/ \E c \in Cams, t \in Tids : frame_count[c] < JoinFrames /\ CaptureRead(c, t)
  \/ \E c \in Cams, t \in Tids : CaptureFull(c, t) \/ CapturePut(c, t)
  \/ \E r \in RTids : RecStep(r)
  \/ CallStep
  \/ JoinRecordingTimeout
  \/ \E fps \in FpsChoices : Allowed("start_cameras") /\ CallStartCameras(fps)
  \/ Allowed("start_recording") /\ CallStartRecording
  \/ Allowed("stop_recording") /\ CallStopRecording
  \/ Allowed("stop_cameras") /\ CallStopCameras

SpecJoin == Init /\ [][NextJoin]_vars

\* ---- SwingDetector (swing_detector.py) ----
\* Shoulder turns are whole degrees, the clock and cooldown_seconds are in ticks.
\* A reading is the value _get_shoulder_turn returns for a frame: <<>> (None) when
\* no pose or no shoulder is found.
Turns == {0, 20, 40}
Readings == {<<>>} \cup {<<t>> : t \in Turns}
ConfirmChoices == 1..MaxConfirm
CooldownChoices == 1..MaxCooldown
WindowChoices == {3, MaxWindow}

\* SwingDetector.__init__
NewDetector(confirmation, cooldown, window) ==
  /\ detector = NoDetector
  /\ detector' = [state |-> "idle", confirm_count |-> 0, cooldown_start |-> <<>>,
                  baseline |-> <<>>, history |-> <<>>, current_turn |-> <<>>,
                  motion_threshold |-> MotionThreshold,
                  confirmation_frames |-> confirmation,
                  cooldown_seconds |-> cooldown, window_size |-> window,
                  event |-> "none"]
  /\ consecutive' = 0
  /\ UNCHANGED <<now, manager, consecutive_failures, swing_events, camVars, recVars, callVars>>

\* deque(maxlen).append: the oldest item leaves a full deque
DequeAppend(h, x, maxlen) ==
  IF Len(h) >= maxlen THEN Append(Tail(h), x) ELSE Append(h, x)

\* the k-th smallest item of the non-empty list h
Kth(h, k) ==
  CHOOSE v \in {h[i] : i \in 1..Len(h)} :
    /\ Cardinality({i \in 1..Len(h) : h[i] < v}) < k
    /\ Cardinality({i \in 1..Len(h) : h[i] <= v}) >= k

\* float(np.median(list(h))): the middle item, or the mean of the two middle
\* items (exact here: the turns are multiples of 20)
Median(h) ==
  IF Len(h) % 2 = 1 THEN Kth(h, (Len(h) + 1) \div 2)
  ELSE (Kth(h, Len(h) \div 2) + Kth(h, Len(h) \div 2 + 1)) \div 2

\* lines 98-109: the branch of state IDLE
WhenIdle(d, delta) ==
  IF delta > d.motion_threshold
  THEN IF d.confirm_count + 1 >= d.confirmation_frames
       THEN [d EXCEPT !.state = "recording", !.confirm_count = 0, !.event = "start"]
       ELSE [d EXCEPT !.state = "motion_detected", !.confirm_count = @ + 1,
                      !.event = "none"]
  ELSE [d EXCEPT !.confirm_count = 0, !.event = "none"]

\* the branch of MOTION_DETECTED with a false alarm that keeps the count
WhenMotionDetectedKeepCount(d, delta) ==
  IF delta > d.motion_threshold
  THEN IF d.confirm_count + 1 >= d.confirmation_frames
       THEN [d EXCEPT !.state = "recording", !.confirm_count = 0, !.event = "start"]
       ELSE [d EXCEPT !.confirm_count = @ + 1, !.event = "none"]
  ELSE [d EXCEPT !.state = "idle", !.event = "none"]

\* lines 111-122: the branch of state MOTION_DETECTED
WhenMotionDetected(d, delta) ==
  IF delta > d.motion_threshold
  THEN IF d.confirm_count + 1 >= d.confirmation_frames
       THEN [d EXCEPT !.state = "recording", !.confirm_count = 0, !.event = "start"]
       ELSE [d EXCEPT !.confirm_count = @ + 1, !.event = "none"]
  ELSE [d EXCEPT !.state = "idle", !.confirm_count = 0, !.event = "none"]

\* lines 124-129: the branch of state RECORDING
WhenRecording(d, delta) ==
  IF delta <= d.motion_threshold
  THEN [d EXCEPT !.state = "cooldown", !.cooldown_start = <<now>>, !.event = "none"]
  ELSE [d EXCEPT !.event = "none"]

\* the branch of COOLDOWN that stops on the first quiet reading
WhenCooldownNoWait(d, delta) ==
  IF delta > d.motion_threshold
  THEN [d EXCEPT !.state = "recording", !.cooldown_start = <<>>, !.event = "none"]
  ELSE [d EXCEPT !.state = "idle", !.cooldown_start = <<>>,
                 !.baseline = <<Median(d.history)>>, !.event = "stop"]

\* a branch of COOLDOWN that announces the motion that resumes as a new swing
WhenCooldownRestarts(d, delta) ==
  IF delta > d.motion_threshold
  THEN [d EXCEPT !.state = "recording", !.cooldown_start = <<>>, !.event = "start"]
  ELSE IF now - d.cooldown_start[1] >= d.cooldown_seconds
       THEN [d EXCEPT !.state = "idle", !.cooldown_start = <<>>,
                      !.baseline = <<Median(d.history)>>, !.event = "stop"]
       ELSE [d EXCEPT !.event = "none"]

\* lines 131-144: the branch of state COOLDOWN
WhenCooldown(d, delta) ==
  IF delta > d.motion_threshold
  THEN [d EXCEPT !.state = "recording", !.cooldown_start = <<>>, !.event = "none"]
  ELSE IF now - d.cooldown_start[1] >= d.cooldown_seconds
       THEN [d EXCEPT !.state = "idle", !.cooldown_start = <<>>,
                      !.baseline = <<Median(d.history)>>, !.event = "stop"]
       ELSE [d EXCEPT !.event = "none"]

\* lines 95-146: the state machine, for a reading taken with a baseline
StateMachine(d, delta) ==
  CASE d.state = "idle" -> WhenIdle(d, delta)
    [] d.state = "motion_detected" -> WhenMotionDetected(d, delta)
    [] d.state = "recording" -> WhenRecording(d, delta)
    [] d.state = "cooldown" -> WhenCooldown(d, delta)

\* the reading turn is above the threshold of the detector d
AboveThreshold(d, turn) ==
  d.baseline # <<>> /\ Abs(turn[1] - d.baseline[1]) > d.motion_threshold

\* the run of readings above the threshold that a detector waiting for a swing
\* (with a baseline, and not yet recording) has seen, after the reading turn
RunAfter(d, turn) ==
  IF d.baseline # <<>> /\ d.state \in {"idle", "motion_detected"}
     /\ AboveThreshold(d, turn)
  THEN consecutive + 1 ELSE 0

\* the record of the events returned, after a call that returned event
EventsAfter(event) ==
  IF event = "none" THEN swing_events
  ELSE [last |-> event, cur |-> event, prev |-> swing_events.cur]

\* SwingDetector.process_frame, for a frame whose reading is turn
ProcessFrame(turn) ==
  /\ detector # NoDetector
  /\ consecutive <= MaxConfirm
  /\ IF turn = <<>>
     THEN /\ detector' = [detector EXCEPT !.event = "none"]
          /\ UNCHANGED consecutive
     ELSE LET d == [detector EXCEPT
                      !.current_turn = turn,
                      !.history = DequeAppend(@, turn[1], detector.window_size)]
          IN /\ detector' =
                  IF d.baseline = <<>>
                  THEN IF Len(d.history) >= 3
                       THEN [d EXCEPT !.baseline = <<Median(d.history)>>,
                                      !.event = "none"]
                       ELSE [d EXCEPT !.event = "none"]
                  ELSE StateMachine(d, Abs(turn[1] - d.baseline[1]))
             /\ consecutive' = RunAfter(detector, turn)
  /\ swing_events' = EventsAfter(detector'.event)
  /\ UNCHANGED <<now, manager, consecutive_failures, camVars, recVars, callVars>>

\* SwingDetector.reset
SwingReset ==
  /\ detector # NoDetector
  /\ detector.history # <<>>
  /\ detector' = [detector EXCEPT !.state = "idle", !.confirm_count = 0,
                                  !.cooldown_start = <<>>, !.baseline = <<>>,
                                  !.history = <<>>, !.current_turn = <<>>,
                                  !.event = "none"]
  /\ consecutive' = 0
  /\ swing_events' = [swing_events EXCEPT !.cur = "none", !.prev = "none"]
  /\ UNCHANGED <<now, manager, consecutive_failures, camVars, recVars, callVars>>

\* time passes between two frames
SwingTick ==
  /\ detector # NoDetector
  /\ now < SwingMaxTime
  /\ now' = now + 1
  /\ UNCHANGED <<camVars, recVars, callVars, otherVars>>

NextSwing ==
  \/ \E confirmation \in ConfirmChoices, cooldown \in CooldownChoices,
        window \in WindowChoices : NewDetector(confirmation, cooldown, window)
  \/ \E turn \in Readings : ProcessFrame(turn)
  \/ SwingReset
  \/ SwingTick

SpecSwing == Init /\ [][NextSwing]_vars

\* ---- CameraManager of the web GUI (scripts/flask_gui.py) ----
\* The Flask app runs threaded (app.run(threaded=True)): every request is served
\* by a thread of its own, and the routes call the manager's methods with no
\* lock. A request q is at the place reqs[q].pc of the method it runs. The
\* methods read self.recorder anew at every use, so a request acts on the
\* recorder the attribute refers to at that moment.
\* A DualCameraRecorder the manager created is kept as what the manager's
\* methods can make of it: made (the object exists), cams (start_cameras has
\* opened its two devices and stop_cameras has not released them) and recording.
\* Whether a device can be opened is the platform's choice at every open.
ReqIds == 1..MaxRequestThreads
RecIds == 1..MaxRecorders
NoRecorder == [made |-> FALSE, cams |-> FALSE, recording |-> FALSE]
NoRequest == [pc |-> "idle", op |-> "none"]

\* CameraManager.__init__ and start(): the preview handles cap1 and cap2 are
\* opened; cameras_available tells whether both did
NewManager(opened) ==
  /\ manager = NoManager
  /\ manager' = [state |-> "started",
                 cap |-> [c \in Cams |-> IF opened[c] THEN "open" ELSE "closed"],
                 cameras_available |-> \A c \in Cams : opened[c],
                 is_recording |-> FALSE,
                 recorder |-> 0,
                 recorders |-> [r \in RecIds |-> NoRecorder],
                 reqs |-> [q \in ReqIds |-> NoRequest],
                 reply |-> [q \in ReqIds |-> "none"],
                 served |-> 0]
  /\ UNCHANGED <<now, detector, consecutive, swing_events, consecutive_failures, camVars, recVars, callVars>>

\* the request q goes on at the place pc
Goto(m, q, pc) == [m EXCEPT !.reqs[q].pc = pc]

\* the request q returns the reply
Return(m, q, reply) == [m EXCEPT !.reqs[q] = NoRequest, !.reply[q] = reply]

\* a POST to /api/recording/start or /api/recording/stop arrives
Request(q, op) ==
  /\ manager # NoManager
  /\ manager.reqs[q].pc = "idle"
  /\ manager.served < MaxRequests
  /\ manager' = [manager EXCEPT !.reqs[q] = [pc |-> "check", op |-> op],
                                !.reply[q] = "none",
                                !.served = @ + 1]
  /\ UNCHANGED <<now, detector, consecutive, swing_events, consecutive_failures, camVars, recVars, callVars>>

At(q, op, pc) ==
  /\ manager # NoManager
  /\ manager.reqs[q].op = op
  /\ manager.reqs[q].pc = pc

\* start_recording, lines 380-392: the three tests
StartRecordingCheck(q) ==
  /\ At(q, "start_recording", "check")
  /\ manager' =
       IF manager.is_recording THEN Return(manager, q, "Already recording")
       ELSE IF ~manager.cameras_available
            THEN Return(manager, q, "Cameras not available")
       ELSE IF \E c \in Cams : manager.cap[c] # "open"
            THEN Return(manager, q, "Camera state mismatch")
       ELSE Goto(manager, q, "release")
  /\ UNCHANGED <<now, detector, consecutive, swing_events, consecutive_failures, camVars, recVars, callVars>>

\* lines 394-415: the preview handles are released
StartRecordingRelease(q) ==
  /\ At(q, "start_recording", "release")
  /\ manager' = [Goto(manager, q, "create") EXCEPT
                   !.cap = [c \in Cams |-> "closed"]]
  /\ UNCHANGED <<now, detector, consecutive, swing_events, consecutive_failures, camVars, recVars, callVars>>

\* lines 418-421: self.recorder = DualCameraRecorder(...), a new object r
StartRecordingCreate(q, r) ==
  /\ At(q, "start_recording", "create")
  /\ ~manager.recorders[r].made
  /\ manager' = [Goto(manager, q, "cameras") EXCEPT
                   !.recorder = r,
                   !.recorders[r] = [NoRecorder EXCEPT !.made = TRUE]]
  /\ UNCHANGED <<now, detector, consecutive, swing_events, consecutive_failures, camVars, recVars, callVars>>

\* line 422: self.recorder.start_cameras(...): it opens both devices, or raises
\* ValueError with the devices released; AttributeError when self.recorder is None
StartRecordingCameras(q, opens) ==
  /\ At(q, "start_recording", "cameras")
  /\ manager' =
       IF manager.recorder = 0 \/ ~opens THEN Goto(manager, q, "except")
       ELSE [Goto(manager, q, "record") EXCEPT
               !.recorders[manager.recorder].cams = TRUE]
  /\ UNCHANGED <<now, detector, consecutive, swing_events, consecutive_failures, camVars, recVars, callVars>>

\* lines 424-439: self.recorder.start_recording(filename): the recorder records,
\* or it prints an error and returns (no initial frames, no writers, already
\* recording); AttributeError when self.recorder is None
StartRecordingRecord(q, records) ==
  /\ At(q, "start_recording", "record")
  /\ manager' =
       IF manager.recorder = 0 THEN Goto(manager, q, "except")
       ELSE [Goto(manager, q, "done") EXCEPT
               !.recorders[manager.recorder].recording =
                  @ \/ (records /\ manager.recorders[manager.recorder].cams)]
  /\ UNCHANGED <<now, detector, consecutive, swing_events, consecutive_failures, camVars, recVars, callVars>>

\* lines 441-451
StartRecordingDone(q) ==
  /\ At(q, "start_recording", "done")
  /\ manager' = [Return(manager, q, "success") EXCEPT !.is_recording = TRUE]
  /\ UNCHANGED <<now, detector, consecutive, swing_events, consecutive_failures, camVars, recVars, callVars>>

\* a recorder nothing refers to any more, with no device and no thread, is gone
Collect(m) ==
  [m EXCEPT !.recorders =
     [r \in RecIds |->
        IF m.recorder # r /\ ~m.recorders[r].cams /\ ~m.recorders[r].recording
        THEN NoRecorder ELSE m.recorders[r]]]

\* the except clauses, lines 453-460 and 501-508: is_recording = False,
\* self.recorder.stop_cameras() if there is a recorder, self.recorder = None
HandlerExcept(q) ==
  /\ manager # NoManager
  /\ manager.reqs[q].pc = "except"
  /\ LET r == manager.recorder
         m == [manager EXCEPT !.is_recording = FALSE, !.recorder = 0]
     IN manager' =
          Collect(Goto(IF r = 0 THEN m ELSE [m EXCEPT !.recorders[r].cams = FALSE],
                       q, "reopen"))
  /\ UNCHANGED <<now, detector, consecutive, swing_events, consecutive_failures, camVars, recVars, callVars>>

\* _reopen_cameras, lines 514-547: nothing when cameras_available is False, else
\* cap1 and cap2 are new handles, each open or not
ReopenCameras(m, opened) ==
  IF ~m.cameras_available THEN m
  ELSE [m EXCEPT !.cap = [c \in Cams |-> IF opened[c] THEN "open" ELSE "closed"]]

\* lines 461-464 and 509-512: the handler reopens the preview and returns an error
HandlerReopen(q, opened) ==
  /\ manager # NoManager
  /\ manager.reqs[q].pc = "reopen"
  /\ manager' = Return(ReopenCameras(manager, opened), q, "error")
  /\ UNCHANGED <<now, detector, consecutive, swing_events, consecutive_failures, camVars, recVars, callVars>>

\* stop_recording, lines 468-473: the two tests
StopRecordingCheck(q) ==
  /\ At(q, "stop_recording", "check")
  /\ manager' =
       IF ~manager.is_recording THEN Return(manager, q, "Not recording")
       ELSE IF manager.recorder = 0
            THEN [Return(manager, q, "No active recorder") EXCEPT
                    !.is_recording = FALSE]
       ELSE Goto(manager, q, "stop")
  /\ UNCHANGED <<now, detector, consecutive, swing_events, consecutive_failures, camVars, recVars, callVars>>

\* line 476: self.recorder.stop_recording()
StopRecordingStop(q) ==
  /\ At(q, "stop_recording", "stop")
  /\ manager' =
       IF manager.recorder = 0 THEN Goto(manager, q, "except")
       ELSE [Goto(manager, q, "cameras") EXCEPT
               !.recorders[manager.recorder].recording = FALSE]
  /\ UNCHANGED <<now, detector, consecutive, swing_events, consecutive_failures, camVars, recVars, callVars>>

\* lines 477-478: self.recorder.stop_cameras(); self.is_recording = False
StopRecordingCameras(q) ==
  /\ At(q, "stop_recording", "cameras")
  /\ manager' =
       IF manager.recorder = 0 THEN Goto(manager, q, "except")
       ELSE [Goto(manager, q, "stop_reopen") EXCEPT
               !.recorders[manager.recorder].cams = FALSE,
               !.is_recording = FALSE]
  /\ UNCHANGED <<now, detector, consecutive, swing_events, consecutive_failures, camVars, recVars, callVars>>

\* lines 490-491: time.sleep(0.5); self._reopen_cameras()
StopRecordingReopen(q, opened) ==
  /\ At(q, "stop_recording", "stop_reopen")
  /\ manager' = Goto(ReopenCameras(manager, opened), q, "clear")
  /\ UNCHANGED <<now, detector, consecutive, swing_events, consecutive_failures, camVars, recVars, callVars>>

\* lines 492-499: time.sleep(0.5); self.recorder = None; return
StopRecordingClear(q) ==
  /\ At(q, "stop_recording", "clear")
  /\ manager' = Collect(Return([manager EXCEPT !.recorder = 0], q, "success"))
  /\ UNCHANGED <<now, detector, consecutive, swing_events, consecutive_failures, camVars, recVars, callVars>>

NextFlask ==
  \/ \E opened \in [Cams -> BOOLEAN] : NewManager(opened)
  \/ \E q \in ReqIds, op \in {"start_recording", "stop_recording"} : Request(q, op)
  \/ \E q \in ReqIds : StartRecordingCheck(q)
  \/ \E q \in ReqIds : StartRecordingRelease(q)
  \/ \E q \in ReqIds, r \in RecIds : StartRecordingCreate(q, r)
  \/ \E q \in ReqIds, opens \in BOOLEAN : StartRecordingCameras(q, opens)
  \/ \E q \in ReqIds, records \in BOOLEAN : StartRecordingRecord(q, records)
  \/ \E q \in ReqIds : StartRecordingDone(q)
  \/ \E q \in ReqIds : HandlerExcept(q)
  \/ \E q \in ReqIds, opened \in [Cams -> BOOLEAN] : HandlerReopen(q, opened)
  \/ \E q \in ReqIds : StopRecordingCheck(q)
  \/ \E q \in ReqIds : StopRecordingStop(q)
  \/ \E q \in ReqIds : StopRecordingCameras(q)
  \/ \E q \in ReqIds, opened \in [Cams -> BOOLEAN] : StopRecordingReopen(q, opened)
  \/ \E q \in ReqIds : StopRecordingClear(q)

SpecFlask == Init /\ [][NextFlask]_vars

\* ======================= the claims =======================
\* the pairs the two sinks hold: sink[1][i] was written together with sink[2][i]
\* (a write that failed on the second sink leaves one unpaired frame in sink 1)
NPairs == Len(sink[2])

\* the pair the step has just written, when the step wrote one
WrotePair == Len(sink'[2]) = Len(sink[2]) + 1 /\ Len(sink'[1]) = Len(sink[1]) + 1

\* C1: every pair the recording loop writes has |ts_a - ts_b| < sync_threshold,
\* the threshold in force at the write, on each of the three write paths
C1_WrittenPairsInWindow ==
  [][WrotePair =>
       LET a == sink'[1][Len(sink'[1])]
           b == sink'[2][Len(sink'[2])]
           d == IF a < b THEN b - a ELSE a - b
       IN d * sync_threshold.den < sync_threshold.num * TickHz]_vars

\* C1 witness: a pair was written after a retry pull from camera 2, with a
\* threshold that does not admit every pair of timestamps of the model
C1_Witness ==
  \E r \in RTids :
    /\ recThreads[r].site = "write_r2"
    /\ NPairs >= 1
    /\ requested_fps = 240

C3_QueueKeepsLastTwo ==
  \A c \in Cams :
    /\ Len(frame_queue[c]) <= BufferSize
    /\ (Len(pushed[c]) >= 2 /\ \A t \in Tids : capThreads[c][t].pc # "put")
         => frame_queue[c] = SubSeq(pushed[c], Len(pushed[c]) - 1, Len(pushed[c]))

\* C3 witness: three frames with different timestamps were pushed with no pop
\* in between, and the queue holds the last two
C3_Witness ==
  /\ pushed[1] = <<0, 1, 2>>
  /\ frame_queue[1] = <<1, 2>>

\* C4: whatever the coordinator does, an acquisition thread that has read a frame
\* can take its next enqueue step at once, and the step after the put is the next
\* device read (the thread is back at the top of its loop)
C4_EnqueueNeverWaits ==
  \A c \in Cams, t \in Tids :
    /\ capThreads[c][t].pc \in {"full", "evict", "put"}
         => ENABLED CaptureEnqueue(c, t)
    /\ capThreads[c][t].pc = "put"
         => ENABLED (CaptureEnqueue(c, t) /\ capThreads'[c][t].pc = "loop")

\* C4 witness: no coordinator has ever run, the queue was full, and the
\* acquisition thread has enqueued a third frame and is back at its device read
C4_Witness ==
  \E c \in Cams :
    /\ \A r \in RTids : recThreads[r].pc = "none"
    /\ Len(pushed[c]) = BufferSize + 1
    /\ Len(frame_queue[c]) = BufferSize
    /\ thread[c] # 0
    /\ capThreads[c][thread[c]].pc = "loop"

\* C5: with camera 2 a fixed Lag (less than the window) behind camera 1, every
\* pair written joins a camera-1 frame with its corresponding camera-2 frame,
\* the one taken Lag after it
C5_PairsCorrespond ==
  \A i \in 1..NPairs : sink[2][i] = sink[1][i] + Lag

\* C6: when camera 2 has given nothing that could be paired for k consecutive
\* camera-1 frames, frames_dropped is at least k
C6_DropsCountStall == frames_dropped >= stalled

\* C7: within a recording, the timestamps written to each sink never decrease
C7_WrittenMonotonic ==
  \A i \in Cams : \A j, k \in 1..Len(sink[i]) : j < k => sink[i][j] <= sink[i][k]

\* C7 witness: two pairs were written, the second with later timestamps on both
\* sinks
C7_Witness ==
  /\ NPairs = 2
  /\ sink[1][1] < sink[1][2]
  /\ sink[2][1] < sink[2][2]

\* C8: a call made in a state the protocol does not allow for it (start_cameras
\* with the cameras started, stop_cameras or start_recording while recording,
\* stop_recording while not recording) returns at once and leaves the session
\* state, the threads, the device handles and the writers as they were
C8_WrongStateCallIsNoOp ==
  [][(wrongCalls' > wrongCalls /\ SessionState # "Idle") =>
       /\ caller'.pc = "idle"
       /\ SessionState' = SessionState
       /\ UNCHANGED <<cap, running, thread, capThreads, video_writer,
                      recording_thread, recThreads>>]_vars

\* C9: start_recording does not end by raising when a camera gives no initial
\* frame
C9_NoInitialFrameNoRaise == result # "raised TypeError"

\* C10: once a write has failed and the loop has stopped, the session is no
\* longer recording and no writer is open
C10_WriteFailureEndsSession ==
  \A r \in RTids :
    (r = recording_thread /\ recThreads[r].pc = "failed")
      => (~recording /\ \A i \in Cams : video_writer[i] # "open")

C12_StopIsIdempotent ==
  [][/\ (CallStopRecording /\ ~recording)
          => (caller' = Idle /\ result' = "Not recording!"
              /\ UNCHANGED <<camVars, recVars>>)
     /\ ((caller.op = "stop_cameras" \/ caller'.op = "stop_cameras")
           /\ requested_fps = 0)
          => (result' \in {"none", "ok"} /\ UNCHANGED <<camVars, recVars>>)]_vars

\* C12 witness: a recording that wrote a pair was stopped, and stop_recording
\* was called once more
C12_Witness ==
  /\ result = "Not recording!"
  /\ wrongCalls = 1
  /\ \A i \in Cams : video_writer[i] = "released"
  /\ frames_written = 1

\* C13: when start_recording has returned because an output writer did not
\* open, no writer is open
C13_NoWriterLeftOpen ==
  result = "Error: Could not initialize video writers"
    => \A i \in Cams : video_writer[i] # "open"

\* the candidates whose probe writer opens
Opening == {i \in 1..Len(Codecs) : caller.probe[i] = "opens"}

\* C14: the negotiation takes the first candidate of the list whose probe writer
\* opens and has probed no candidate after it; it takes the fallback codec only
\* when it has probed every candidate and none opened
C14_FirstWorkingCodec ==
  (caller.op = "start_recording" /\ caller.pc = InitialPc(1))
    => IF Opening = {}
       THEN caller.fourcc = FallbackCodec /\ caller.probed = Len(Codecs)
       ELSE \E i \in Opening :
              /\ \A j \in Opening : i <= j
              /\ caller.fourcc = Codecs[i]
              /\ caller.probed = i

\* C14 witness: the probe rejects the first two candidates (one by raising) and
\* accepts the third and the fourth; the third is taken, the fourth not probed
C14_Witness ==
  /\ caller.pc = InitialPc(1)
  /\ caller.probe = <<"fails", "raises", "opens", "opens">>
  /\ caller.fourcc = "mp4v"
  /\ caller.probed = 3

\* C15: at any time each camera has at most one live acquisition thread, and
\* there is at most one live _recording_loop thread
C15_OneThreadEach ==
  /\ \A c \in Cams : Cardinality({t \in Tids : Alive(capThreads[c][t].pc)}) <= 1
  /\ Cardinality({r \in RTids : Alive(recThreads[r].pc)}) <= 1

\* C16: before any start_cameras the window is the constructor's 0.017 s; from
\* the first start_cameras on it is exactly 1/fps for the fps of the latest
\* start_cameras call
C16_WindowIsOneOverFps ==
  IF requested_fps = 0
  THEN sync_threshold = DefaultThreshold
  ELSE sync_threshold.num * requested_fps = sync_threshold.den

\* C16 witness: after a session with a recording, the cameras were started with
\* fps = 240 and the window is 1/240 s
C16_Witness ==
  /\ requested_fps = 240
  /\ sync_threshold = [num |-> 1, den |-> 240]
  /\ SessionState = "CamerasStarted"
  /\ caller = Idle
  /\ \A i \in Cams : video_writer[i] = "released"

\* C17: process_frame returns 'start', and the detector enters RECORDING, exactly
\* on the confirmation_frames-th consecutive reading above the threshold taken
\* with a baseline; a reading at or below the threshold before that sends the
\* detector to IDLE with a confirmation count of 0 and no event; no call returns
\* an event while there is no baseline.
C17_StartOnConfirmedRun ==
  [][\A t \in Turns : ProcessFrame(<<t>>) =>
       LET waiting == detector.state \in {"idle", "motion_detected"}
           above == AboveThreshold(detector, <<t>>)
       IN /\ (detector'.event = "start")
               <=> (waiting /\ above /\ consecutive' = detector.confirmation_frames)
          /\ (waiting /\ detector'.state = "recording") <=> (detector'.event = "start")
          /\ (waiting /\ detector.baseline # <<>> /\ ~above)
               => /\ detector'.state = "idle"
                  /\ detector'.confirm_count = 0
                  /\ detector'.event = "none"
          /\ detector.baseline = <<>> => detector'.event = "none"]_vars

\* a detector built with confirmation_frames = 3 has just returned 'start'
C17_Witness ==
  /\ detector # NoDetector
  /\ detector.event = "start"
  /\ detector.state = "recording"
  /\ detector.confirmation_frames = 3
  /\ consecutive = 3

\* C18: process_frame returns 'stop' only in COOLDOWN, for a reading at or below
\* the threshold taken at least cooldown_seconds after the detector entered
\* COOLDOWN, and the detector is then IDLE; a reading above the threshold in
\* COOLDOWN leads back to RECORDING with no event; a reading at or below it
\* taken earlier leaves the detector in COOLDOWN with no event.
C18_StopAfterCooldown ==
  [][\A t \in Turns : ProcessFrame(<<t>>) =>
       LET cooling == detector.state = "cooldown"
           above == AboveThreshold(detector, <<t>>)
           elapsed == now - detector.cooldown_start[1] >= detector.cooldown_seconds
       IN /\ (detector'.event = "stop") <=> (cooling /\ ~above /\ elapsed)
          /\ detector'.event = "stop" => detector'.state = "idle"
          /\ (cooling /\ above)
               => (detector'.state = "recording" /\ detector'.event = "none")
          /\ (cooling /\ ~above /\ ~elapsed)
               => /\ detector'.state = "cooldown"
                  /\ detector'.event = "none"
                  /\ detector'.cooldown_start = detector.cooldown_start
          /\ (~cooling /\ detector'.state = "cooldown")
               => detector'.cooldown_start = <<now>>]_vars

\* a detector built with cooldown_seconds = 2 ticks has just returned 'stop'
C18_Witness ==
  /\ detector # NoDetector
  /\ detector.event = "stop"
  /\ detector.state = "idle"
  /\ detector.cooldown_seconds = 2

\* a recorder of the web GUI that holds the cameras or records
Active(r) == manager.recorders[r].cams \/ manager.recorders[r].recording

\* C19: at most one DualCameraRecorder of the web GUI is active at any time, and
\* none is created while a recording is in progress (is_recording), whatever the
\* interleaving of the start and stop requests.
C19_SingleRecorder ==
  /\ [](manager # NoManager => Cardinality({r \in RecIds : Active(r)}) <= 1)
  /\ [][(manager # NoManager /\ manager.is_recording)
          => \A r \in RecIds : manager'.recorders[r].made => manager.recorders[r].made]_vars

\* C20: the preview handle of a camera and a recorder's handle for it are never
\* open at the same time.
C20_PreviewOrRecorder ==
  manager # NoManager =>
    \A c \in Cams : ~(manager.cap[c] = "open" /\ \E r \in RecIds : manager.recorders[r].cams)

\* C21: the acquisition loop of a camera takes a frame out of its queue only
\* when the queue holds BufferSize frames at that moment: it discards nothing
\* while the queue has a free slot, however its full-check, evict and put steps
\* interleave with the consumer's pops.
C21_EvictOnlyWhenFull ==
  [][\A c \in Cams, t \in Tids :
       (/\ capThreads[c][t].pc = "evict"
        /\ capThreads'[c][t].pc = "put"
        /\ frame_queue'[c] # frame_queue[c])
         => Len(frame_queue[c]) = BufferSize]_vars

\* C22: an iteration of the recording loop that pulled both frames and found them
\* outside the window pulls one more frame from the camera that is behind and
\* then either goes on to write the pair or adds 1 to frames_dropped, whether
\* the retry pull returned nothing or a frame that is still outside the window.
C22_RetryWritesOrDrops ==
  [][\A r \in RTids :
       (/\ recThreads[r].pc \in {"retry1", "retry2"}
        /\ recThreads'[r].pc # recThreads[r].pc)
         => \/ recThreads'[r].pc \in {"write_r1", "write_r2"}
            \/ frames_dropped' = frames_dropped + 1]_vars

\* stop_recording is not under way and the recorder is not recording
StopReturned == ~recording /\ caller.pc # "joinrec"

\* C23: once stop_recording has returned, no _recording_loop thread writes to a
\* sink or changes frames_written or frames_dropped, also when the join of
\* stop_recording timed out.
C23_NothingAfterStop ==
  [][(StopReturned /\ \E r \in RTids : RecStep(r))
       => /\ sink' = sink
          /\ frames_written' = frames_written
          /\ frames_dropped' = frames_dropped]_vars

\* C24: whenever the loop of the recording under way is between two iterations,
\* or has been left on a failed write, each sink holds as many frames as
\* frames_written says: a pair is in both sinks or in neither, and is counted
\* once, also when a write fails.
C24_SinksAndCountAgree ==
  (/\ recording
   /\ recording_thread # 0
   /\ recThreads[recording_thread].pc \in {"get1", "failed"})
    => /\ Len(sink[1]) = Len(sink[2])
       /\ Len(sink[1]) = frames_written

\* C25: once start_recording has returned with the recording started, the
\* counters hold counts of this recording only: frames_written is not above the
\* pairs written to the new files, and while the new loop has not begun its
\* first iteration both counters read 0.
C25_CountsOfThisRecording ==
  (recording /\ caller.pc = "idle" /\ recording_thread # 0)
    => /\ frames_written <= Len(sink[1])
       /\ recThreads[recording_thread].pc = "init"
            => (frames_written = 0 /\ frames_dropped = 0)

\* camera c has at most one acquisition thread
OneProducer(c) == Cardinality({t \in Tids : Alive(capThreads[c][t].pc)}) <= 1

\* C26: with one acquisition thread per camera, the put of a frame that was read
\* never finds the queue full: the frame is appended to the queue and frame_count
\* goes up by 1, however the consumer's pops fall between the loop's steps.
C26_EveryReadFrameIsQueued ==
  /\ [](\A c \in Cams, t \in Tids :
          (OneProducer(c) /\ capThreads[c][t].pc = "put") => ~QueueFull(frame_queue[c]))
  /\ [][\A c \in Cams, t \in Tids :
          (OneProducer(c) /\ capThreads[c][t].pc = "put" /\ capThreads'[c][t].pc = "loop")
            => /\ frame_queue'[c] = Append(frame_queue[c], capThreads[c][t].ts)
               /\ frame_count'[c] = frame_count[c] + 1]_vars

\* a loop is about to put its third frame into a queue that it found full and
\* that a consumer has emptied since
C26_Witness ==
  \E c \in Cams, t \in Tids :
    /\ capThreads[c][t].pc = "put"
    /\ frame_count[c] = BufferSize
    /\ frame_queue[c] = <<>>
    /\ recording

\* C27: once stop_recording has cleared the flag, a live _recording_loop thread
\* ends, whatever the cameras deliver; a thread at the top of the loop that
\* finds the flag cleared begins no further iteration.
C27_LoopExitsAfterStop ==
  /\ \A r \in RTids :
       (~recording /\ Alive(recThreads[r].pc)) ~> ~Alive(recThreads[r].pc)
  /\ [][\A r \in RTids :
          (~recording /\ recThreads[r].pc = "get1")
            => recThreads'[r].pc \in {"get1", "done"}]_vars

\* a loop has ended on the cleared flag with both queues empty and the caller
\* still inside stop_recording
C27_Witness ==
  /\ ~recording
  /\ caller.pc = "joinrec"
  /\ recording_thread # 0
  /\ recThreads[recording_thread].pc = "done"
  /\ \A c \in Cams : frame_queue[c] = <<>>

\* C28: an acquisition thread ends only with its camera's running flag cleared,
\* whatever the number of reads that failed; its counter of consecutive failures
\* is 0 after a read that succeeded and after a failure that took it above
\* FailureLimit, and a read that failed changes no queue and no frame_count.
C28_FailedReadsNeverEndTheLoop ==
  /\ [](\A c \in Cams, t \in Tids : consecutive_failures[c][t] <= FailureLimit)
  /\ [][\A c \in Cams, t \in Tids :
          /\ (Alive(capThreads[c][t].pc) /\ ~Alive(capThreads'[c][t].pc)) => ~running[c]
          /\ (capThreads[c][t].pc = "loop" /\ capThreads'[c][t].pc = "full")
               => consecutive_failures'[c][t] = 0
          /\ CaptureReadFail(c, t)
               => /\ frame_queue' = frame_queue
                  /\ frame_count' = frame_count
                  /\ capThreads'[c][t].pc = "loop"
                  /\ consecutive_failures'[c][t] =
                       IF consecutive_failures[c][t] = FailureLimit THEN 0
                       ELSE consecutive_failures[c][t] + 1]_vars

\* a running loop that has queued a frame and then met FailureLimit failed reads
\* in a row
C28_Witness ==
  \E c \in Cams, t \in Tids :
    /\ capThreads[c][t].pc = "loop"
    /\ running[c]
    /\ frame_count[c] = 1
    /\ consecutive_failures[c][t] = FailureLimit

C30_EventsAlternate ==
  [][\A turn \in Readings : ProcessFrame(turn) =>
       /\ detector'.event = "start" => swing_events.last # "start"
       /\ detector'.event = "stop" => swing_events.last = "start"]_vars

\* C30, amended: the events returned since the last reset (or since the detector
\* was built) alternate, beginning with 'start'; reset itself returns no event.
C30_EventsAlternateBetweenResets ==
  [][/\ \A turn \in Readings : ProcessFrame(turn) =>
          /\ detector'.event = "start" => swing_events.cur # "start"
          /\ detector'.event = "stop" => swing_events.cur = "start"
     /\ SwingReset => (detector'.event = "none" /\ detector'.state = "idle")]_vars

\* a second swing has started after a complete first one, with no reset since
C30_Witness ==
  /\ detector # NoDetector
  /\ detector.event = "start"
  /\ swing_events.cur = "start"
  /\ swing_events.prev = "stop"

====
